---- MODULE Spec2Model ----
(***************************************************************************)
(* Model of inzown-btn (src/inzown-btn.c): the seconds quantizer           *)
(* seconds() and the gesture state machine of run(), driven by the sysfs   *)
(* GPIO value descriptor (POLLPRI) and a one-shot timerfd (POLLIN); the    *)
(* configuration store and the action resolver behind execute_action().    *)
(*                                                                         *)
(* One daemon step is one iteration of the for(;;) loop of run(); a read   *)
(* of the timerfd that has to block (the timer was re-armed earlier in     *)
(* the same iteration) is a second step.  The environment advances the     *)
(* monotonic clock, moves the button and lets the armed timer expire.      *)
(***************************************************************************)
EXTENDS Integers, Sequences, FiniteSets, TLC

\* ---------------------------------------------------------------- constants

CLICK_TIMEOUT_MS == 400

HOLD_PRESS_TIMEOUT_MS == CLICK_TIMEOUT_MS

DEFAULT_CLICK_COUNT_LIMIT == 8

MAX_PATH_LENGTH == 4096

ACTION_NAME_SIZE == 11

ABSOLUTE_MAX_CLICK == 99

ABSOLUTE_MAX_HOLD == 99

\* sizeof(cmd) in execute_action().
CMD_SIZE == MAX_PATH_LENGTH + 64

WHITESPACE_CHARS == {" ", "\t"}

\* INT_MAX and INT_MIN of the 32-bit int that seconds() computes in.
INT_MAX == 2147483647

INT_MIN == (-2147483647) - 1

\* ------------------------------------------------------------------- bounds

\* The clock of the gesture model stops at MaxTime (ms).
MaxTime == 1500

\* Amounts (ms) by which one environment step advances the clock.
Delays == {50, 400}

\* Values of g_click_count_limit the runs start with (0 = unlimited).
Limits == {0, 3, DEFAULT_CLICK_COUNT_LIMIT}

\* Largest hold duration of the dense part of the quantizer's input range.
MaxTicks == 7200

\* Width of the window of inputs just below INT_MAX given to the quantizer.
TopWindow == 600

\* Distances ticks2 - ticks1 of the pairs given to the quantizer.
Gaps == {0, 1, 500, 1000, 2000}

VARIABLES
    \* environment
    now,              \* CLOCK_MONOTONIC in ms, as get_timestamp_ms() returns it
    level,            \* what a read of the GPIO value file yields (0 or 1)
    edge_pending,     \* POLLPRI is pending on the value descriptor
    timer_deadline,   \* expiry time of the armed timerfd, 0 when disarmed
    timer_expired,    \* the timerfd holds an unread expiration (POLLIN)
    \* run()
    pc,               \* "poll": in poll(); "timer_read": blocked in read(timerfd)
    button_down,
    timer_running,
    num_pressed,
    pressed_at,
    g_click_count_limit,
    g_full_time,
    g_offset_time,
    \* observation of the emitted events
    out,              \* the events the last daemon step emitted, in order
    window_downs,     \* DOWNs emitted since timer_running last became true
    window_clicks,    \* CLICKs emitted since timer_running last became true
    press_holds,      \* HOLDs emitted since the last DOWN
    seq_downs,        \* DOWNs emitted since the machine was last idle
    inputs,           \* processed events since start, while they follow a scenario
    log,              \* events emitted since start, while inputs is tracked
    \* seconds() under test
    q_pc,             \* "idle", "in" (inputs chosen), "out" (returned), "trap"
    q_ticks1,
    q_ticks2,
    q_res1,
    q_res2,
    \* configuration
    files,            \* the config files that exist: path |-> sequence of lines
    g_config_path,
    \* execute_action() under test
    x_pc,             \* "idle", "in" (arguments chosen), "out" (returned), "trap"
    x_action,
    x_click_count,
    x_hold_time,
    x_name,           \* action_name as get_action_name() left it
    x_fallback,       \* get_action_script() looked the *_OTHER key up
    x_script,         \* cmd as get_action_script_path() left it
    x_arg,            \* arg as get_action_script_path() left it
    x_cmd,            \* the command line handed to system()
    x_ran,            \* system() was called
    \* main()
    argv,             \* the arguments behind argv[0], each a text
    envp,             \* the environment: entries [name, value]
    conf_path_specified,
    click_count_limit_specified,
    g_pin_activation,
    \* the process and the pin's sysfs files
    g_button_exported,
    gpio_exported,    \* the directory /sys/class/gpio/gpio<pin> exists
    gpio_edge,        \* content of the pin's edge file
    gpio_active_low,  \* content of the pin's active_low file
    exit_status,      \* <<>> while the process runs, else <<status>>
    exit_cause,       \* what ended the process
    exported_here,    \* this process wrote the pin to the export file
    unexported_here,  \* this process wrote the pin to the unexport file
    edge_set_both     \* this process set the edge file to "both"

fsmvars == <<now, level, edge_pending, timer_deadline, timer_expired, pc,
             button_down, timer_running, num_pressed, pressed_at,
             g_click_count_limit>>

obsvars == <<out, window_downs, window_clicks, press_holds, seq_downs,
             inputs, log>>

qvars == <<q_pc, q_ticks1, q_ticks2, q_res1, q_res2>>

flagvars == <<g_full_time, g_offset_time>>

confvars == <<files, g_config_path>>

xvars == <<x_pc, x_action, x_click_count, x_hold_time, x_name, x_fallback,
           x_script, x_arg, x_cmd, x_ran>>

mainvars == <<argv, envp, conf_path_specified, click_count_limit_specified,
              g_pin_activation>>

lifevars == <<g_button_exported, gpio_exported, gpio_edge, gpio_active_low,
              exit_status, exit_cause, exported_here, unexported_here,
              edge_set_both>>

auxvars == <<confvars, xvars, mainvars, lifevars>>

vars == <<fsmvars, obsvars, qvars, flagvars, auxvars>>

\* ------------------------------------------------------- C integer arithmetic

\* C's a / b for b > 0: the quotient truncated toward zero.
CDiv(a, b) == IF a >= 0 \/ a % b = 0 THEN a \div b ELSE (a \div b) + 1

\* C's a % b for b > 0: the remainder with the sign of a.
CMod(a, b) == a - b * CDiv(a, b)

\* a + b for int a and b >= 0 overflows the 32-bit int.
AddOverflows(a, b) == a > INT_MAX - b

\* a + b for int a and b >= 0 as a two's-complement build computes it.
AddWrap(a, b) == IF AddOverflows(a, b) THEN INT_MIN + ((a - (INT_MAX - b)) - 1)
                 ELSE a + b

\* ---------------------------------------------------------------- seconds()

\* The evaluation of seconds(ticks) overflows int (undefined behaviour).
seconds_overflows(ticks) == g_offset_time /\ g_full_time /\ AddOverflows(ticks, 500)

seconds_floor(ticks) ==
    IF g_offset_time
    THEN IF g_full_time
         THEN CDiv(AddWrap(ticks, 500), 1000)
         ELSE LET sec == CDiv(ticks, 1000) IN sec + CMod(sec + 1, 2)
    ELSE IF g_full_time
         THEN CDiv(ticks, 1000)
         ELSE 1 + (((ticks - 1000) \div 2000) * 2)

\* The value seconds(ticks) returns; where the addition overflows, the value
\* a wrapping build returns (a trapping build is the action QuantizeTrap).
seconds(ticks) ==
    IF g_offset_time
    THEN IF g_full_time
         THEN CDiv(AddWrap(ticks, 500), 1000)
         ELSE LET sec == CDiv(ticks, 1000) IN sec + CMod(sec + 1, 2)
    ELSE IF g_full_time
         THEN CDiv(ticks, 1000)
         ELSE 1 + (CDiv(ticks - 1000, 2000) * 2)

\* ------------------------------------------------------------ emitted events

onDown == [kind |-> "DOWN", n |-> 0, ms |-> 0]

onUp == [kind |-> "UP", n |-> 0, ms |-> 0]

onTimesClicked(num_presses) == [kind |-> "CLICK", n |-> num_presses, ms |-> 0]

onHold(num_presses, time_held) == [kind |-> "HOLD", n |-> num_presses, ms |-> time_held]

\* Number of events of kind k in the sequence s.
Count(s, k) == Cardinality({i \in 1..Len(s) : s[i].kind = k})

\* ------------------------------------------------------------- scenarios

P(t) == [ev |-> "P", at |-> t]

R(t) == [ev |-> "R", at |-> t]

T(t) == [ev |-> "T", at |-> t]

\* The end-to-end scenarios of the specification (processed edges P and R and
\* handled timer expiries T, with the timestamp each is processed at).
Scenario1 == [limit |-> 8, evs |-> <<P(0), R(100), T(400)>>]

Scenario2 == [limit |-> 8, evs |-> <<P(0), R(50), P(150), R(200), T(550)>>]

Scenario3 == [limit |-> 8, evs |-> <<P(0), T(400), R(600)>>]

Scenario4 == [limit |-> 8,
              evs |-> <<P(0), R(50), P(100), R(150), P(200), T(600), R(1500)>>]

Scenario5 == [limit |-> 3,
              evs |-> <<P(0), R(50), P(100), R(150), P(200), R(250), P(300),
                        R(350), P(400), R(450), P(500), R(550), P(600), R(650),
                        P(700), R(750), P(800), R(850), P(900), R(950),
                        T(1300)>>]

Scenario6 == [limit |-> 8, evs |-> <<P(0), R(300), T(400)>>]

Scenarios == {Scenario1, Scenario2, Scenario3, Scenario4, Scenario5, Scenario6}

IsPrefix(s, t) == Len(s) <= Len(t) /\ SubSeq(t, 1, Len(s)) = s

\* inputs and log once the run has left every scenario.
Untracked == <<[ev |-> "-", at |-> 0]>>

Tracked(ins) == ins # Untracked
                /\ \E sc \in Scenarios : sc.limit = g_click_count_limit
                                         /\ IsPrefix(ins, sc.evs)

\* ------------------------------------------------------------ the run loop

HoldDue_nosub(timestamp, pressed) ==
    pressed # 0 /\ timestamp >= HOLD_PRESS_TIMEOUT_MS

\* The release of a press at `pressed`, read at `timestamp`, reports a hold.
HoldDue(timestamp, pressed) ==
    pressed # 0 /\ timestamp - pressed >= HOLD_PRESS_TIMEOUT_MS

NextNumPressed_noclamp(running, n) == IF ~running THEN 1 ELSE n + 1

NextNumPressed_noreset(running, n) ==
    IF g_click_count_limit = 0 \/ n < g_click_count_limit THEN n + 1 ELSE n

NextNumPressed_zero(running, n) ==
    IF ~running THEN 0
    ELSE IF g_click_count_limit = 0 \/ n < g_click_count_limit THEN n + 1
    ELSE n

\* num_pressed after a pressed edge.
NextNumPressed(running, n) ==
    IF ~running THEN 1
    ELSE IF g_click_count_limit = 0 \/ n < g_click_count_limit THEN n + 1
    ELSE n

ArmTimer_now(t) == t

\* Expiry time of the timer that timerfd_settime arms at time t.
ArmTimer(t) == t + CLICK_TIMEOUT_MS

EdgeEvents_holdfirst(pressed, down, timestamp, n, pa) ==
    IF pressed THEN <<onDown>>
    ELSE IF down
         THEN (IF HoldDue(timestamp, pa)
               THEN <<onHold(n, timestamp - pa)>> ELSE <<>>) \o <<onUp>>
         ELSE <<>>

EdgeEvents_spurious(pressed, down, timestamp, n, pa) ==
    IF pressed THEN <<onDown>>
    ELSE <<onUp>> \o (IF HoldDue(timestamp, pa)
                      THEN <<onHold(n, timestamp - pa)>> ELSE <<>>)

\* The events the button branch emits: pressed is the level read, down the
\* value of button_down before, n the value of num_pressed after the branch
\* and pa the value of pressed_at before.
EdgeEvents(pressed, down, timestamp, n, pa) ==
    IF pressed THEN <<onDown>>
    ELSE IF down
         THEN <<onUp>> \o (IF HoldDue(timestamp, pa)
                           THEN <<onHold(n, timestamp - pa)>> ELSE <<>>)
         ELSE <<>>

TimerEvents_always(down, n) == <<onTimesClicked(n)>>

\* The events the timer branch emits.
TimerEvents(down, n) == IF ~down THEN <<onTimesClicked(n)>> ELSE <<>>

TimerRunningAfterExpiry_kept == timer_running

\* timer_running after the timer branch.
TimerRunningAfterExpiry == FALSE

\* Bookkeeping of the observation variables for a daemon step that processed
\* the inputs ins and emitted ev1 (button branch) and ev2 (timer branch).
Observe(ins, ev1, ev2, pressed) ==
    LET opened == pressed /\ ~timer_running
        idle   == ~button_down /\ ~timer_running
        ins1   == inputs \o ins
    IN  /\ out' = ev1 \o ev2
        /\ window_downs' = IF pressed
                           THEN (IF opened THEN 1 ELSE window_downs + 1)
                           ELSE window_downs
        /\ window_clicks' = (IF opened THEN 0 ELSE window_clicks)
                            + Count(ev1 \o ev2, "CLICK")
        /\ press_holds' = IF pressed THEN 0
                          ELSE press_holds + Count(ev1 \o ev2, "HOLD")
        /\ seq_downs' = (IF idle THEN 0 ELSE seq_downs) + Count(ev1, "DOWN")
        /\ IF Tracked(inputs) /\ Tracked(ins1)
           THEN inputs' = ins1 /\ log' = log \o ev1 \o ev2
           ELSE inputs' = Untracked /\ log' = <<>>

\* One iteration of the for(;;) loop: poll() returns with the button and/or
\* the timer ready; the button branch runs first, then the timer branch.
PollWake ==
    /\ pc = "poll"
    /\ edge_pending \/ timer_expired
    /\ LET btn       == edge_pending
           tmr       == timer_expired
           timestamp == now
           pressed   == btn /\ level # 0
           released  == btn /\ level = 0 /\ button_down
           down1     == IF pressed THEN TRUE
                        ELSE IF released THEN FALSE ELSE button_down
           running1  == IF pressed THEN TRUE ELSE timer_running
           n1        == IF pressed THEN NextNumPressed(timer_running, num_pressed)
                        ELSE num_pressed
           ev1       == IF btn
                        THEN EdgeEvents(level # 0, button_down, timestamp, n1,
                                        pressed_at)
                        ELSE <<>>
           \* timerfd_settime clears the expiration the poll reported, so the
           \* read of the timer branch blocks until the new timer expires
           blocks    == tmr /\ pressed
           ev2       == IF tmr /\ ~blocks THEN TimerEvents(down1, n1) ELSE <<>>
           ins       == (IF btn THEN <<[ev |-> IF level # 0 THEN "P" ELSE "R",
                                        at |-> timestamp]>> ELSE <<>>)
                        \o (IF tmr /\ ~blocks THEN <<T(now)>> ELSE <<>>)
       IN  /\ edge_pending' = FALSE
           /\ button_down' = down1
           /\ num_pressed' = n1
           /\ pressed_at' = IF pressed THEN timestamp ELSE pressed_at
           /\ timer_deadline' = IF pressed THEN ArmTimer(now) ELSE timer_deadline
           /\ timer_expired' = FALSE
           /\ timer_running' = IF tmr /\ ~blocks THEN TimerRunningAfterExpiry
                               ELSE running1
           /\ pc' = IF blocks THEN "timer_read" ELSE "poll"
           /\ Observe(ins, ev1, ev2, pressed)
    /\ UNCHANGED <<now, level, g_click_count_limit, qvars, flagvars, auxvars>>

\* The blocked read of the timerfd returns once the re-armed timer expires.
TimerReadReturn ==
    /\ pc = "timer_read"
    /\ timer_expired
    /\ timer_expired' = FALSE
    /\ timer_running' = TimerRunningAfterExpiry
    /\ pc' = "poll"
    /\ Observe(<<T(now)>>, <<>>, TimerEvents(button_down, num_pressed), FALSE)
    /\ UNCHANGED <<now, level, edge_pending, timer_deadline, button_down,
                   num_pressed, pressed_at, g_click_count_limit, qvars, flagvars, auxvars>>

\* The clock advances by d; the button changes level at the new instant when
\* flip; the armed timer expires when its deadline is reached.
AdvanceTime(d, flip) ==
    /\ now + d <= MaxTime
    /\ now' = now + d
    /\ level' = IF flip THEN 1 - level ELSE level
    /\ edge_pending' = (edge_pending \/ flip)
    /\ IF timer_deadline # 0 /\ timer_deadline <= now + d
       THEN timer_expired' = TRUE /\ timer_deadline' = 0
       ELSE UNCHANGED <<timer_expired, timer_deadline>>
    /\ out' = <<>>
    /\ UNCHANGED <<pc, button_down, timer_running, num_pressed, pressed_at,
                   g_click_count_limit, window_downs, window_clicks,
                   press_holds, seq_downs, inputs, log, qvars, flagvars, auxvars>>

Tick == \E d \in Delays, flip \in BOOLEAN : AdvanceTime(d, flip)

\* ------------------------------------------------------- the quantizer runs

TicksDomain == (HOLD_PRESS_TIMEOUT_MS..MaxTicks)
               \cup {INT_MAX - k : k \in 0..TopWindow}

\* seconds() returns for both inputs (a build in which the addition wraps).
Quantize ==
    /\ q_pc = "in"
    /\ q_pc' = "out"
    /\ q_res1' = seconds(q_ticks1)
    /\ q_res2' = seconds(q_ticks2)
    /\ UNCHANGED <<q_ticks1, q_ticks2, fsmvars, obsvars, flagvars, auxvars>>

\* A build that traps on signed overflow aborts inside seconds().
QuantizeTrap ==
    /\ q_pc = "in"
    /\ seconds_overflows(q_ticks1) \/ seconds_overflows(q_ticks2)
    /\ q_pc' = "trap"
    /\ UNCHANGED <<q_ticks1, q_ticks2, q_res1, q_res2, fsmvars, obsvars, flagvars, auxvars>>

\* ------------------------------------------------------------------- text
\* A C string is a sequence of pieces: each whitespace character, '#' and
\* '/' is a piece of its own, and a run of other characters is one piece.

RECURSIVE Flatten(_)
\* The characters of the text s as one string.
Flatten(s) == IF s = <<>> THEN "" ELSE Head(s) \o Flatten(Tail(s))

strlen(s) == Len(Flatten(s))

Take(s, k) == SubSeq(s, 1, k)

Drop(s, k) == SubSeq(s, k + 1, Len(s))

\* strchr / strpbrk: the index of the first piece of s that is in cs, 0 if none.
strpbrk(s, cs) ==
    IF \E i \in 1..Len(s) : s[i] \in cs
    THEN CHOOSE i \in 1..Len(s) : s[i] \in cs /\ \A j \in 1..(i - 1) : s[j] \notin cs
    ELSE 0

\* strspn: the number of leading pieces of s that are in cs.
strspn(s, cs) ==
    IF \E i \in 1..Len(s) : s[i] \notin cs
    THEN (CHOOSE i \in 1..Len(s) : s[i] \notin cs /\ \A j \in 1..(i - 1) : s[j] \in cs) - 1
    ELSE Len(s)

RECURSIVE Rep(_, _)
\* The string of k copies of the character c.
Rep(c, k) ==
    IF k = 0 THEN ""
    ELSE LET h == Rep(c, k \div 2) IN h \o h \o (IF k % 2 = 1 THEN c ELSE "")

\* ------------------------------------------------------- read_config_value()

\* The line cut at its first '#'.
StripComment(line) ==
    IF strpbrk(line, {"#"}) > 0 THEN Take(line, strpbrk(line, {"#"}) - 1)
    ELSE line

\* s + strspn(s, WHITESPACE_CHARS)
SkipWhitespace(s) == Drop(s, strspn(s, WHITESPACE_CHARS))

\* value and argument of a line whose value region is t: with a1 > 0 the
\* region is cut at its first whitespace a1, the argument is what follows
\* the whitespace.
SplitValue(name, t, a1) ==
    IF a1 > 0
    THEN [skip |-> FALSE, name |-> name, value |-> Take(t, a1 - 1),
          argument |-> SkipWhitespace(Drop(t, a1 - 1))]
    ELSE [skip |-> FALSE, name |-> name, value |-> t, argument |-> <<>>]

\* name and value region of the line p whose first whitespace is at t0 (0:
\* none, the line is the name).
SplitName(p, t0, with_args) ==
    IF t0 = 0
    THEN [skip |-> FALSE, name |-> p, value |-> <<>>, argument |-> <<>>]
    ELSE SplitValue(Take(p, t0 - 1), SkipWhitespace(Drop(p, t0 - 1)),
                    IF with_args
                    THEN strpbrk(SkipWhitespace(Drop(p, t0 - 1)), WHITESPACE_CHARS)
                    ELSE 0)

\* The line p, its comment and leading whitespace removed: skipped unless
\* strlen(p) > 1.
SplitLine(p, with_args) ==
    IF strlen(p) <= 1
    THEN [skip |-> TRUE, name |-> <<>>, value |-> <<>>, argument |-> <<>>]
    ELSE SplitName(p, strpbrk(p, WHITESPACE_CHARS), with_args)

\* One line of the config file as the loop body of read_config_value() splits
\* it: skip when the line is not considered, else name, value and argument.
\* with_args is `args != NULL`.
ParseLine(line, with_args) ==
    SplitLine(SkipWhitespace(StripComment(line)), with_args)

\* The lines fopen(path) and read_line() deliver; none when fopen fails.
ConfigLines(path) == IF path \in DOMAIN files THEN files[path] ELSE <<>>

\* The parsed line l is named value_name and its value and argument are
\* shorter than n.
Matches(l, value_name, n) ==
    /\ ~l.skip
    /\ Flatten(l.name) = value_name
    /\ strlen(l.value) < n
    /\ strlen(l.argument) < n

RECURSIVE FirstMatch(_, _, _, _)
\* The loop of read_config_value() over the lines: the first line named
\* value_name whose value and argument are shorter than n.
FirstMatch(lines, value_name, with_args, n) ==
    IF lines = <<>> THEN [found |-> FALSE, dst |-> <<>>, args |-> <<>>]
    ELSE IF Matches(ParseLine(Head(lines), with_args), value_name, n)
    THEN [found |-> TRUE, dst |-> ParseLine(Head(lines), with_args).value,
          args |-> ParseLine(Head(lines), with_args).argument]
    ELSE FirstMatch(Tail(lines), value_name, with_args, n)

\* The default value "#" and no args when no line matched.
OrDefault(m) ==
    IF m.found THEN m ELSE [found |-> FALSE, dst |-> <<"#">>, args |-> <<>>]

read_config_value_noargs(conf, value_name, with_args, n) ==
    OrDefault(FirstMatch(ConfigLines(conf), value_name, FALSE, n))

\* dst and args as read_config_value(conf, value_name, dst, args, n, "#")
\* leaves them.
read_config_value(conf, value_name, with_args, n) ==
    OrDefault(FirstMatch(ConfigLines(conf), value_name, with_args, n))

\* --------------------------------------------------------- execute_action()

get_action_name_max100(act, count, hold) ==
    CASE act = "DOWN"  -> "DOWN"
      [] act = "UP"    -> "UP"
      [] act = "CLICK" -> IF count <= ABSOLUTE_MAX_CLICK + 1
                          THEN "CLICK_" \o ToString(count) ELSE "CLICK_OTHER"
      [] act = "HOLD"  -> IF 0 <= seconds(hold)
                             /\ seconds(hold) <= ABSOLUTE_MAX_HOLD + 1
                          THEN "HOLD_" \o ToString(seconds(hold)) \o "S"
                          ELSE "HOLD_OTHER"

\* action_name as get_action_name() fills it.  timer is unsigned in the
\* source: a negative result of seconds() converts to a value above
\* ABSOLUTE_MAX_HOLD.
get_action_name(act, count, hold) ==
    CASE act = "DOWN"  -> "DOWN"
      [] act = "UP"    -> "UP"
      [] act = "CLICK" -> IF count <= ABSOLUTE_MAX_CLICK
                          THEN "CLICK_" \o ToString(count) ELSE "CLICK_OTHER"
      [] act = "HOLD"  -> IF 0 <= seconds(hold)
                             /\ seconds(hold) <= ABSOLUTE_MAX_HOLD
                          THEN "HOLD_" \o ToString(seconds(hold)) \o "S"
                          ELSE "HOLD_OTHER"

\* buffer[0] == '#'
IsSentinel(buffer) == buffer # <<>> /\ Head(buffer) = "#"

\* buffer and args at the end of get_action_script(): a '#' left in the
\* buffer is replaced by the empty string.
ScriptOf(r, fallback) ==
    [buffer   |-> IF IsSentinel(r.dst) THEN <<>> ELSE r.dst,
     args     |-> r.args,
     fallback |-> fallback]

RetryOther_emptyfalls(act, first) ==
    IF (IsSentinel(first.dst) \/ first.dst = <<>>) /\ act = "CLICK"
    THEN ScriptOf(read_config_value(g_config_path, "CLICK_OTHER", TRUE,
                                    MAX_PATH_LENGTH), TRUE)
    ELSE IF (IsSentinel(first.dst) \/ first.dst = <<>>) /\ act = "HOLD"
    THEN ScriptOf(read_config_value(g_config_path, "HOLD_OTHER", TRUE,
                                    MAX_PATH_LENGTH), TRUE)
    ELSE ScriptOf(first, FALSE)

\* get_action_script() behind its first lookup, whose result is first: when
\* it left the '#' default, a CLICK is looked up as CLICK_OTHER and a HOLD as
\* HOLD_OTHER.
RetryOther(act, first) ==
    IF IsSentinel(first.dst) /\ act = "CLICK"
    THEN ScriptOf(read_config_value(g_config_path, "CLICK_OTHER", TRUE,
                                    MAX_PATH_LENGTH), TRUE)
    ELSE IF IsSentinel(first.dst) /\ act = "HOLD"
    THEN ScriptOf(read_config_value(g_config_path, "HOLD_OTHER", TRUE,
                                    MAX_PATH_LENGTH), TRUE)
    ELSE ScriptOf(first, FALSE)

\* buffer and args as get_action_script() leaves them; fallback tells that
\* the *_OTHER key was looked up.
get_action_script(act, name) ==
    RetryOther(act, read_config_value(g_config_path, name, TRUE, MAX_PATH_LENGTH))

\* tmp after dirname(tmp), whose return value the caller drops: the text is
\* cut at its last '/' (kept when it is the first character) and is left as
\* it was when it has no '/'.
dirname(tmp) ==
    LET slashes == {i \in 1..Len(tmp) : tmp[i] = "/"}
        last_slash == CHOOSE i \in slashes : \A j \in slashes : j <= i
    IN  IF slashes = {} THEN tmp
        ELSE IF last_slash = 1 THEN <<"/">>
        ELSE Take(tmp, last_slash - 1)

\* script as get_action_script_path() builds it from action_script.  The
\* strncpy and strncat calls do not truncate for config paths and relative
\* scripts that together stay below MAX_PATH_LENGTH characters.
ScriptPath(action_script) ==
    IF action_script = <<>> THEN <<>>
    ELSE IF Head(action_script) = "/" THEN action_script
    ELSE dirname(g_config_path) \o <<"/">> \o action_script

\* script, args and the return value n of get_action_script_path(), s being
\* what get_action_script() delivered.
PathResult(s) ==
    [n        |-> strlen(ScriptPath(s.buffer)),
     script   |-> ScriptPath(s.buffer),
     args     |-> IF s.buffer = <<>> THEN <<>> ELSE s.args,
     fallback |-> s.fallback]

get_action_script_path(act, name) == PathResult(get_action_script(act, name))

AppendedText_count(act, count, hold, arg) ==
    CASE act = "CLICK" -> " " \o ToString(count)
      [] act = "HOLD"  -> " " \o ToString(count) \o " " \o ToString(hold)
      [] OTHER         -> ""

\* What the snprintf of execute_action() formats after the script path.
AppendedText(act, count, hold, arg) ==
    CASE act = "CLICK" -> IF strlen(arg) = 0 THEN " " \o ToString(count)
                          ELSE " " \o Flatten(arg)
      [] act = "HOLD"  -> IF strlen(arg) = 0
                          THEN " " \o ToString(count) \o " " \o ToString(hold)
                          ELSE " " \o Flatten(arg)
      [] OTHER         -> ""

\* execute_action() behind get_action_script_path(), which delivered sp, with
\* text the formatted arguments: ran tells that system(cmd) was called.
\* remainingSpace is one more than the room left in cmd, so a text that
\* fills it makes snprintf store the terminator one byte behind cmd.
Assemble(name, sp, text) ==
    [name     |-> name,
     fallback |-> sp.fallback,
     script   |-> Flatten(sp.script),
     arg      |-> Flatten(sp.args),
     ran      |-> sp.n > 0 /\ Len(text) < (CMD_SIZE - sp.n) + 1,
     cmd      |-> IF sp.n > 0 /\ Len(text) < (CMD_SIZE - sp.n) + 1
                  THEN Flatten(sp.script) \o text ELSE "",
     overrun  |-> sp.n > 0 /\ Len(text) >= CMD_SIZE - sp.n]

\* execute_action() behind get_action_script_path(), which delivered sp.
RunScript(act, count, hold, name, sp) ==
    Assemble(name, sp, AppendedText(act, count, hold, sp.args))

\* What execute_action() computes and does.
execute_action(act, count, hold) ==
    RunScript(act, count, hold, get_action_name(act, count, hold),
              get_action_script_path(act, get_action_name(act, count, hold)))

\* execute_action() returns (a build in which the addition of seconds() wraps
\* and the byte behind cmd is not missed).
Execute ==
    /\ x_pc = "in"
    /\ \E r \in {execute_action(x_action, x_click_count, x_hold_time)} :
           /\ x_name' = r.name
           /\ x_fallback' = r.fallback
           /\ x_script' = r.script
           /\ x_arg' = r.arg
           /\ x_cmd' = r.cmd
           /\ x_ran' = r.ran
    /\ x_pc' = "out"
    /\ UNCHANGED <<x_action, x_click_count, x_hold_time, confvars, fsmvars,
                   obsvars, qvars, flagvars, mainvars, lifevars>>

\* execute_action() does not return: the build traps on the signed overflow
\* in seconds(), or the store behind cmd hits what the build put there.
ExecuteTrap ==
    /\ x_pc = "in"
    /\ \/ seconds_overflows(x_hold_time)
       \/ execute_action(x_action, x_click_count, x_hold_time).overrun
    /\ x_pc' = "trap"
    /\ UNCHANGED <<x_action, x_click_count, x_hold_time, x_name, x_fallback,
                   x_script, x_arg, x_cmd, x_ran, confvars, fsmvars, obsvars,
                   qvars, flagvars, mainvars, lifevars>>

\* ------------------------------------------------- start and end of run()

\* Values of errno after a failed open, timerfd_create or read.
ErrnoValues == {2, 13, 24}

\* The exit status of a process whose main() returns v or that calls exit(v).
ExitStatus(v) == v % 256

\* The process ends with exit(v) or with main() returning v, from a state in
\* which the pin's sysfs directory exists iff exported and its edge file
\* holds edge.  The atexit handler cleanup() unexports the pin when
\* g_button_exported is set; the edge setting goes away with the directory.
Exit(v, cause, exported, edge) ==
    /\ pc' = "exited"
    /\ exit_status' = <<ExitStatus(v)>>
    /\ exit_cause' = cause
    /\ g_button_exported' = FALSE
    /\ IF g_button_exported /\ exported
       THEN /\ gpio_exported' = FALSE
            /\ gpio_edge' = "none"
            /\ unexported_here' = TRUE
       ELSE /\ gpio_exported' = exported
            /\ gpio_edge' = edge
            /\ unexported_here' = unexported_here

\* What the actions of the start and the end of run() leave alone.
LifeFrame ==
    UNCHANGED <<now, level, edge_pending, timer_deadline, timer_expired,
                button_down, timer_running, num_pressed, pressed_at,
                g_click_count_limit, obsvars, qvars, flagvars, confvars, xvars,
                mainvars>>

\* gpio_export() up to its usleep: the pin is exported already (0 is returned
\* and g_button_exported stays false), or the write to the export file
\* succeeds, or a step of the export fails (close, when written) and run()
\* returns -1.
GpioExport ==
    /\ pc = "run"
    /\ \/ /\ gpio_exported
          /\ pc' = "setup"
          /\ UNCHANGED <<gpio_exported, gpio_edge, exported_here,
                         unexported_here, exit_status, exit_cause>>
       \/ /\ ~gpio_exported
          /\ pc' = "export_sleep"
          /\ gpio_exported' = TRUE
          /\ exported_here' = TRUE
          /\ UNCHANGED <<gpio_edge, unexported_here, exit_status, exit_cause>>
       \/ /\ ~gpio_exported
          /\ \E written \in BOOLEAN :
                /\ exported_here' = written
                /\ Exit(0 - 1, "setup", written, gpio_edge)
    /\ g_button_exported' = FALSE
    /\ UNCHANGED <<gpio_active_low, edge_set_both>>
    /\ LifeFrame

\* gpio_export() returns 1 after its usleep and run() sets g_button_exported.
ExportDone ==
    /\ pc = "export_sleep"
    /\ pc' = "setup"
    /\ g_button_exported' = TRUE
    /\ UNCHANGED <<gpio_exported, gpio_edge, gpio_active_low, exported_here,
                   unexported_here, edge_set_both, exit_status, exit_cause>>
    /\ LifeFrame

\* run() from gpio_set_active_low() to the entry of its loop: each call can
\* fail, and run() then returns -1 (active_low, edge) or errno (gpio_open,
\* timerfd_create) with the sysfs files as the calls before left them.
SetUp ==
    /\ pc = "setup"
    /\ LET activate == g_pin_activation # "PA_UNSPECIFIED"
           low      == IF activate THEN g_pin_activation = "PA_ACTIVE_LOW"
                       ELSE gpio_active_low
       IN  \/ /\ activate
              /\ Exit(0 - 1, "setup", gpio_exported, gpio_edge)
              /\ UNCHANGED <<gpio_active_low, edge_set_both>>
           \/ /\ Exit(0 - 1, "setup", gpio_exported, gpio_edge)
              /\ gpio_active_low' = low
              /\ UNCHANGED edge_set_both
           \/ /\ \E e \in ErrnoValues : Exit(e, "setup", gpio_exported, "both")
              /\ gpio_active_low' = low
              /\ edge_set_both' = TRUE
           \/ /\ pc' = "poll"
              /\ gpio_active_low' = low
              /\ gpio_edge' = "both"
              /\ edge_set_both' = TRUE
              /\ UNCHANGED <<g_button_exported, gpio_exported, unexported_here,
                             exit_status, exit_cause>>
    /\ UNCHANGED exported_here
    /\ LifeFrame

\* The statements of run() behind its loop, reached by break: the edge is
\* set back to "none" and run() returns 0, which main() returns.
BreakLoop(cause) ==
    /\ Exit(0, cause, gpio_exported, "none")
    /\ UNCHANGED <<gpio_active_low, exported_here, edge_set_both>>
    /\ LifeFrame

\* poll() returns -1.
PollFails ==
    /\ pc = "poll"
    /\ BreakLoop("poll")

\* The read of the value file returns 0 bytes, or the lseek behind it fails.
ButtonReadFails ==
    /\ pc = "poll"
    /\ edge_pending
    /\ BreakLoop("read")

\* The read of the timerfd returns less than 8 bytes: run() returns errno.
\* The failure is taken in an iteration in which only the timer is ready, or
\* in the blocked read.
TimerReadFails ==
    /\ \/ pc = "poll" /\ timer_expired /\ ~edge_pending
       \/ pc = "timer_read"
    /\ \E e \in ErrnoValues : Exit(e, "timer_read", gpio_exported, gpio_edge)
    /\ UNCHANGED <<gpio_active_low, exported_here, edge_set_both>>
    /\ LifeFrame

\* SIGINT arrives: sigint_handler() calls exit(0).
Sigint ==
    /\ pc \in {"run", "export_sleep", "setup", "poll", "timer_read"}
    /\ Exit(0, "signal", gpio_exported, gpio_edge)
    /\ UNCHANGED <<gpio_active_low, exported_here, edge_set_both>>
    /\ LifeFrame

\* The clock advances by the click timeout.
TickSlow == \E flip \in BOOLEAN : AdvanceTime(CLICK_TIMEOUT_MS, flip)

\* -------------------------------------------------------------------- main()

DIGITS == <<"0", "1", "2", "3", "4", "5", "6", "7", "8", "9">>

IsDigit(c) == \E i \in 1..Len(DIGITS) : DIGITS[i] = c

DigitValue(c) == (CHOOSE i \in 1..Len(DIGITS) : DIGITS[i] = c) - 1

RECURSIVE Decimal(_)
\* The number a text of digits denotes.
Decimal(ds) ==
    IF ds = <<>> THEN 0
    ELSE 10 * Decimal(Take(ds, Len(ds) - 1)) + DigitValue(ds[Len(ds)])

parse_uint_prefix(src) ==
    LET body   == Drop(src, strspn(src, WHITESPACE_CHARS))
        digits == IF body # <<>> /\ Head(body) = "+" THEN Tail(body) ELSE body
        n      == strspn(digits, {DIGITS[i] : i \in 1..Len(DIGITS)})
    IN  IF n = 0 THEN [ok |-> FALSE, x |-> 0]
        ELSE [ok |-> TRUE, x |-> Decimal(Take(digits, n))]

\* parse_uint(): strtoul skips leading whitespace and a '+' and converts the
\* digits that follow; the call fails when there is no digit or when text is
\* left behind the digits.  The texts are pieces of one character, carry no
\* '-' and at most nine digits, so the value is below 2^31.
parse_uint(src) ==
    LET body   == Drop(src, strspn(src, WHITESPACE_CHARS))
        digits == IF body # <<>> /\ Head(body) = "+" THEN Tail(body) ELSE body
        n      == strspn(digits, {DIGITS[i] : i \in 1..Len(DIGITS)})
    IN  IF n = 0 \/ n < Len(digits) THEN [ok |-> FALSE, x |-> 0]
        ELSE [ok |-> TRUE, x |-> Decimal(digits)]

\* sizeof(buffer) in read_config_uint().
UINT_BUFFER_SIZE == 12

\* *dst as read_config_uint() leaves it.
read_config_uint(conf, value_name, default_value) ==
    LET r == read_config_value(conf, value_name, FALSE, UINT_BUFFER_SIZE)
        u == parse_uint(r.dst)
    IN  IF IsSentinel(r.dst) THEN default_value
        ELSE IF u.ok THEN u.x ELSE default_value

\* The locals and globals main() holds when its argument loop starts; status
\* is <<>> while main() has not returned.
MainStart ==
    [path |-> g_config_path, conf_path_specified |-> FALSE,
     limit |-> g_click_count_limit, click_count_limit_specified |-> FALSE,
     full |-> g_full_time, offset |-> g_offset_time,
     activation |-> g_pin_activation, status |-> <<>>]

RECURSIVE ParseArgs(_, _, _)
\* The argument loop of main() from argv[i] on (av is argv without argv[0]).
ParseArgs(av, i, st) ==
    IF i > Len(av) THEN st
    ELSE
    LET a       == Flatten(av[i])
        has_arg == i + 1 <= Len(av)
        fail    == [st EXCEPT !.status = <<1>>]
    IN  CASE a \in {"--help", "--version", "--help-time"} ->
               [st EXCEPT !.status = <<0>>]
          [] a = "--full-time" -> ParseArgs(av, i + 1, [st EXCEPT !.full = TRUE])
          [] a = "--offset-time" ->
               ParseArgs(av, i + 1, [st EXCEPT !.offset = TRUE])
          [] a = "--debug" ->
               IF ~has_arg THEN fail
               ELSE IF parse_uint(av[i + 1]).ok THEN ParseArgs(av, i + 2, st)
               ELSE ParseArgs(av, i + 1, st)
          [] a = "-q" -> ParseArgs(av, i + 1, st)
          [] a = "--conf" ->
               IF ~has_arg THEN fail
               ELSE ParseArgs(av, i + 2,
                              [st EXCEPT !.path = av[i + 1],
                                         !.conf_path_specified = TRUE])
          [] a \in {"--click-count-limit", "-n"} ->
               IF ~has_arg \/ ~parse_uint(av[i + 1]).ok THEN fail
               ELSE ParseArgs(av, i + 2,
                              [st EXCEPT !.limit = parse_uint(av[i + 1]).x,
                                         !.click_count_limit_specified = TRUE])
          [] a = "--gpio" ->
               IF ~has_arg \/ ~parse_uint(av[i + 1]).ok THEN fail
               ELSE ParseArgs(av, i + 2, st)
          [] a = "--active-low" ->
               ParseArgs(av, i + 1, [st EXCEPT !.activation = "PA_ACTIVE_LOW"])
          [] a = "--active-high" ->
               ParseArgs(av, i + 1, [st EXCEPT !.activation = "PA_ACTIVE_HIGH"])
          [] OTHER -> fail

\* strncmp("INZOWN_BTN_CFG=", envp[i], 16) == 0: the literal is 15 characters
\* long, so the 16th character compared is its terminator and the entry
\* matches only when nothing follows its '='.
EnvMatches(entry) == entry.name = "INZOWN_BTN_CFG" /\ entry.value = <<>>

\* The text NAME=value of an environment entry.
EntryText(entry) == <<entry.name \o "=">> \o entry.value

\* What strncpy may find at &envp[i][16] of a matching entry, one character
\* behind the entry's terminator: the entry stored behind it, no text, or
\* the text stored behind the environment.
BehindEntry(env, i) ==
    (IF i < Len(env) THEN {EntryText(env[i + 1])} ELSE {})
    \cup {<<>>, <<"inzown-btn">>}

RECURSIVE EnvScan(_, _, _)
\* The values g_config_path can hold after the loop over envp from envp[i] on.
EnvScan(env, i, path) ==
    IF i > Len(env) THEN {path}
    ELSE IF EnvMatches(env[i])
         THEN UNION {EnvScan(env, i + 1, p) : p \in BehindEntry(env, i)}
         ELSE EnvScan(env, i + 1, path)

\* main() up to its call of run(), or to its return.
Main ==
    /\ pc = "main"
    /\ LET st == ParseArgs(argv, 1, MainStart)
       IN  /\ g_full_time' = st.full
           /\ g_offset_time' = st.offset
           /\ g_pin_activation' = st.activation
           /\ conf_path_specified' = st.conf_path_specified
           /\ click_count_limit_specified' = st.click_count_limit_specified
           /\ IF st.status # <<>>
              THEN /\ Exit(st.status[1], "usage", gpio_exported, gpio_edge)
                   /\ g_config_path' = st.path
                   /\ g_click_count_limit' = st.limit
              ELSE /\ pc' = "run"
                   /\ UNCHANGED <<g_button_exported, gpio_exported, gpio_edge,
                                  unexported_here, exit_status, exit_cause>>
                   /\ g_config_path' \in (IF st.conf_path_specified THEN {st.path}
                                          ELSE EnvScan(envp, 1, st.path))
                   /\ g_click_count_limit' =
                         IF st.click_count_limit_specified THEN st.limit
                         ELSE read_config_uint(g_config_path', "CLICK_COUNT_LIMIT",
                                               st.limit)
    /\ UNCHANGED <<argv, envp, files, gpio_active_low, exported_here,
                   edge_set_both, xvars, qvars, obsvars, now, level,
                   edge_pending, timer_deadline, timer_expired, button_down,
                   timer_running, num_pressed, pressed_at>>

\* ------------------------------------------------------------ specifications

\* The locals of run() and the descriptors when its loop is entered.
InitLoop ==
    /\ now = 0
    /\ level \in {0, 1}
    /\ edge_pending \in BOOLEAN
    /\ timer_deadline = 0
    /\ timer_expired = FALSE
    /\ button_down = FALSE
    /\ timer_running = FALSE
    /\ num_pressed = 0
    /\ pressed_at = 0
    /\ out = <<>>
    /\ window_downs = 0
    /\ window_clicks = 0
    /\ press_holds = 0
    /\ seq_downs = 0
    /\ inputs = <<>>
    /\ log = <<>>

InitRun ==
    /\ InitLoop
    /\ pc = "poll"

InitQuantizer ==
    /\ q_pc = "idle"
    /\ q_ticks1 = 0
    /\ q_ticks2 = 0
    /\ q_res1 = 0
    /\ q_res2 = 0

InitMain ==
    /\ argv = <<>>
    /\ envp = <<>>
    /\ conf_path_specified = FALSE
    /\ click_count_limit_specified = FALSE
    /\ g_pin_activation = "PA_UNSPECIFIED"

\* A process inside the loop of run() on a pin that was exported before.
InitLife ==
    /\ g_button_exported = FALSE
    /\ gpio_exported = TRUE
    /\ gpio_edge = "both"
    /\ gpio_active_low = FALSE
    /\ exit_status = <<>>
    /\ exit_cause = "none"
    /\ exported_here = FALSE
    /\ unexported_here = FALSE
    /\ edge_set_both = TRUE

\* The default value of g_config_path.
DefaultConfigPath == <<"/", "etc", "/", "inzown", "/", "button.conf">>

InitConfig ==
    /\ files = <<>>
    /\ g_config_path = DefaultConfigPath

InitExecute ==
    /\ x_pc = "idle"
    /\ x_action = "DOWN"
    /\ x_click_count = 0
    /\ x_hold_time = 0
    /\ x_name = ""
    /\ x_fallback = FALSE
    /\ x_script = ""
    /\ x_arg = ""
    /\ x_cmd = ""
    /\ x_ran = FALSE

\* The gesture state machine, started with one of the click count limits.
Init ==
    /\ InitRun
    /\ InitQuantizer
    /\ InitConfig
    /\ InitExecute
    /\ InitMain
    /\ InitLife
    /\ g_click_count_limit \in Limits
    /\ g_full_time = FALSE
    /\ g_offset_time = FALSE

Next == Tick \/ PollWake \/ TimerReadReturn

Spec == Init /\ [][Next]_vars

\* seconds() applied to pairs ticks1 <= ticks2 under each flag setting.
InitSeconds ==
    /\ InitRun
    /\ level = 0
    /\ edge_pending = FALSE
    /\ g_click_count_limit = DEFAULT_CLICK_COUNT_LIMIT
    /\ g_full_time \in BOOLEAN
    /\ g_offset_time \in BOOLEAN
    /\ q_pc = "in"
    /\ q_ticks1 \in TicksDomain
    /\ \E gap \in Gaps : /\ ~AddOverflows(q_ticks1, gap)
                         /\ q_ticks2 = q_ticks1 + gap
    /\ q_res1 = 0
    /\ q_res2 = 0
    /\ InitConfig
    /\ InitExecute
    /\ InitMain
    /\ InitLife

NextSeconds == Quantize \/ QuantizeTrap

SpecSeconds == InitSeconds /\ [][NextSeconds]_vars

\* ------------------------------------------------------- the resolver runs

\* The line `CLICK_1 /bin/echo one`.
LineEchoOne == <<"CLICK_1", " ", "/", "bin", "/", "echo", " ", "one">>

\* The line `CLICK_1 /bin/echo one two three`.
LineEchoOneTwoThree == LineEchoOne \o <<" ", "two", " ", "three">>

\* Lines of config files.
ConfigLinePool ==
    { LineEchoOne,
      LineEchoOneTwoThree,
      <<"CLICK_1", " ", "#", " ", "off">>,
      <<"CLICK_1", " ", "/", Rep("x", MAX_PATH_LENGTH - 1)>>,
      <<"CLICK_2", " ", "/", Rep("x", MAX_PATH_LENGTH - 2), " ", Rep("y", 64)>>,
      <<"\t", "CLICK_2", " ", "\t", "click2.sh", " ", "#", "twice">>,
      <<"CLICK_OTHER", " ", "/", "bin", "/", "other">>,
      <<"HOLD_1S", " ", "hold.sh", " ", "-v", " ">>,
      <<"HOLD_OTHER", " ", "/", "bin", "/", "long">>,
      <<"DOWN", " ", "/", "bin", "/", "down", " ", "now">> }

\* Largest number of lines of a config file.
MaxLines == 2

ConfigFilePool == UNION {[1..k -> ConfigLinePool] : k \in 0..MaxLines}

\* Values of g_config_path.
ConfigPaths == {DefaultConfigPath, <<"button.conf">>, <<"/", "button.conf">>}

\* click_count of the CLICKs given to the resolver.
ClickCounts == {1, 2, ABSOLUTE_MAX_CLICK, ABSOLUTE_MAX_CLICK + 1, 250}

\* hold_time of the HOLDs given to the resolver.
HoldTimes == {HOLD_PRESS_TIMEOUT_MS, 99999, 101000, INT_MAX}

\* The argument triples with which the callbacks onDown, onUp, onTimesClicked
\* and onHold call execute_action().
Payloads ==
    {<<"DOWN", 0, 0>>, <<"UP", 0, 0>>}
    \cup {<<"CLICK", c, 0>> : c \in ClickCounts}
    \cup {<<"HOLD", 3, h>> : h \in HoldTimes}

\* execute_action() applied to each payload under each config file; the time
\* flags vary for HOLD, the only action whose name depends on them.
InitResolve ==
    /\ InitRun
    /\ InitMain
    /\ InitLife
    /\ level = 0
    /\ edge_pending = FALSE
    /\ g_click_count_limit = DEFAULT_CLICK_COUNT_LIMIT
    /\ InitQuantizer
    /\ g_config_path \in ConfigPaths
    /\ \E f \in ConfigFilePool : files = (g_config_path :> f)
    /\ \E pl \in Payloads : /\ x_action = pl[1]
                            /\ x_click_count = pl[2]
                            /\ x_hold_time = pl[3]
    /\ g_full_time \in BOOLEAN
    /\ g_offset_time \in BOOLEAN
    /\ x_action = "HOLD" \/ (~g_full_time /\ ~g_offset_time)
    /\ x_pc = "in"
    /\ x_name = ""
    /\ x_fallback = FALSE
    /\ x_script = ""
    /\ x_arg = ""
    /\ x_cmd = ""
    /\ x_ran = FALSE

NextResolve == Execute \/ ExecuteTrap

SpecResolve == InitResolve /\ [][NextResolve]_vars

\* ------------------------------------------------------------ the main runs

\* Paths of config files: the default, the one --conf names and the one the
\* environment names.
ConfPathArg == <<"/", "tmp", "/", "a.conf">>

ConfPathEnv == <<"/", "tmp", "/", "b.conf">>

LimitKey == <<"CLICK_COUNT_LIMIT", " ">>

\* Config files with and without the key CLICK_COUNT_LIMIT.
LimitFilePool ==
    { <<>>,
      <<LimitKey \o <<"3">>>>,
      <<LineEchoOne, <<"\t">> \o LimitKey \o <<"\t", "1", "2">>>>,
      <<LimitKey \o <<"0">>, LimitKey \o <<"3">>>>,
      <<LimitKey \o <<"5", " ", "#", "five">>>>,
      <<LimitKey \o <<"1", "2", "x">>>>,
      <<<<"CLICK_COUNT_LIMIT">>, LimitKey \o <<"3">>>>,
      <<LimitKey \o <<"1", "2", "3", "4", "5", "6", "7", "8", "9", "0", "1", "2">>,
        LimitKey \o <<"+", "4">>>> }

\* Argument lists.
ArgvPool ==
    { <<>>,
      << <<"-n">>, <<"5">> >>,
      << <<"--click-count-limit">>, <<"0">> >>,
      << <<"-n">>, <<"3">>, <<"--click-count-limit">>, <<"1", "2">> >>,
      << <<"-n">>, <<"5", "x">> >>,
      << <<"-n">> >>,
      << <<"--conf">>, ConfPathArg >>,
      << <<"--conf">>, ConfPathArg, <<"-n">>, <<"5">> >>,
      << <<"--conf">> >>,
      << <<"--full-time">>, <<"--offset-time">>, <<"--active-low">> >>,
      << <<"--debug">>, <<"2">>, <<"--gpio">>, <<"4">>, <<"-q">>,
         <<"--active-high">> >>,
      << <<"--debug">>, <<"-q">>, <<"--gpio">>, <<"x">> >>,
      << <<"--help">>, <<"-n">>, <<"5">> >>,
      << <<"--bogus">> >> }

\* Environments.
EnvPool ==
    { <<>>,
      << [name |-> "HOME", value |-> <<"/", "root">>] >>,
      << [name |-> "INZOWN_BTN_CFG", value |-> ConfPathEnv] >>,
      << [name |-> "HOME", value |-> <<"/", "root">>],
         [name |-> "INZOWN_BTN_CFG", value |-> ConfPathEnv] >>,
      << [name |-> "INZOWN_BTN_CFG", value |-> <<>>],
         [name |-> "HOME", value |-> <<"/", "root">>] >>,
      << [name |-> "INZOWN_BTN_CFG", value |-> <<>>] >> }

\* main() started with each argument list and environment, over each
\* assignment of config files to the three paths.
InitMainRun ==
    /\ InitLoop
    /\ level = 0
    /\ edge_pending = FALSE
    /\ pc = "main"
    /\ InitQuantizer
    /\ InitExecute
    /\ g_click_count_limit = DEFAULT_CLICK_COUNT_LIMIT
    /\ g_full_time = FALSE
    /\ g_offset_time = FALSE
    /\ g_config_path = DefaultConfigPath
    /\ files \in [{DefaultConfigPath, ConfPathArg, ConfPathEnv} -> LimitFilePool]
    /\ argv \in ArgvPool
    /\ envp \in EnvPool
    /\ conf_path_specified = FALSE
    /\ click_count_limit_specified = FALSE
    /\ g_pin_activation = "PA_UNSPECIFIED"
    /\ g_button_exported = FALSE
    /\ gpio_exported = FALSE
    /\ gpio_edge = "none"
    /\ gpio_active_low = FALSE
    /\ exit_status = <<>>
    /\ exit_cause = "none"
    /\ exported_here = FALSE
    /\ unexported_here = FALSE
    /\ edge_set_both = FALSE

NextMain == Main

SpecMain == InitMainRun /\ [][NextMain]_vars

\* ------------------------------------------------------- the process runs

\* The process at its call of run(), on a pin that is or is not exported.
InitLifeRun ==
    /\ InitLoop
    /\ pc = "run"
    /\ InitQuantizer
    /\ InitExecute
    /\ InitConfig
    /\ g_click_count_limit = DEFAULT_CLICK_COUNT_LIMIT
    /\ g_full_time = FALSE
    /\ g_offset_time = FALSE
    /\ argv = <<>>
    /\ envp = <<>>
    /\ conf_path_specified = FALSE
    /\ click_count_limit_specified = FALSE
    /\ g_pin_activation \in {"PA_UNSPECIFIED", "PA_ACTIVE_LOW", "PA_ACTIVE_HIGH"}
    /\ g_button_exported = FALSE
    /\ gpio_exported \in BOOLEAN
    /\ gpio_edge \in (IF gpio_exported THEN {"none", "both"} ELSE {"none"})
    /\ gpio_active_low = FALSE
    /\ exit_status = <<>>
    /\ exit_cause = "none"
    /\ exported_here = FALSE
    /\ unexported_here = FALSE
    /\ edge_set_both = FALSE

NextLife ==
    \/ GpioExport
    \/ ExportDone
    \/ SetUp
    \/ TickSlow
    \/ PollWake
    \/ TimerReadReturn
    \/ PollFails
    \/ ButtonReadFails
    \/ TimerReadFails
    \/ Sigint

SpecLife == InitLifeRun /\ [][NextLife]_vars

\* ------------------------------------------------------------------ claims

\* The step is a loop iteration that ran the button branch.
EdgeStep == pc = "poll" /\ edge_pending /\ ~edge_pending'

\* The step consumed a timer expiry (in the timer branch of an iteration, or
\* by the return of the blocked read).
TimerStep == timer_expired /\ ~timer_expired' /\ pc' = "poll"

Kinds(s) == {s[i].kind : i \in 1..Len(s)}

Min(a, b) == IF a <= b THEN a ELSE b

\* The events of kind k of the sequence s, in order.
Only(s, k) == SelectSeq(s, LAMBDA e : e.kind = k)

\* C1: every processed edge that reads pressed emits exactly one DOWN, every
\* processed edge that reads released while button_down is true emits exactly
\* one UP, and no other step (timer expiry, released edge while button_down
\* is false, clock or button movement) emits a DOWN or an UP.
C1_OneDownUpPerEdge ==
    [][ /\ Count(out', "DOWN") = IF EdgeStep /\ level # 0 THEN 1 ELSE 0
        /\ Count(out', "UP") = IF EdgeStep /\ level = 0 /\ button_down
                               THEN 1 ELSE 0 ]_vars

\* A released edge has just emitted the UP of the second press of a sequence.
C1_Witness == out = <<onUp>> /\ seq_downs = 2 /\ ~button_down

\* C2: a CLICK is emitted only by a step that consumes a timer expiry and finds
\* button_down false, at most one per step, and at most one per click window
\* (from the DOWN that sets timer_running until the expiry that clears it).
C2_ClickOnlyAtExpiryOncePerWindow ==
    /\ [](window_clicks <= 1)
    /\ [][ /\ Count(out', "CLICK") <= 1
           /\ Count(out', "CLICK") = 1 => (TimerStep /\ ~button_down') ]_vars

\* The expiry of a window of two presses has emitted its single CLICK.
C2_Witness ==
    /\ out = <<onTimesClicked(2)>>
    /\ window_clicks = 1
    /\ window_downs = 2
    /\ ~timer_running

C4_UpBeforeHoldDownFirst ==
    /\ \A i \in 1..Len(out) :
          out[i].kind = "HOLD" => (i > 1 /\ out[i - 1].kind = "UP")
    /\ (Kinds(out) \cap {"CLICK", "HOLD"} # {}) => seq_downs >= 1

\* A release after 400 ms or more has emitted UP and then HOLD.
C4_Witness ==
    /\ Len(out) = 2
    /\ out[1] = onUp
    /\ out[2].kind = "HOLD"
    /\ seq_downs >= 1

\* C5: with a limit > 0, press_count never exceeds it, and a pressed edge
\* processed inside the click window when press_count equals the limit leaves
\* press_count unchanged, emits DOWN and re-arms the timer to 400 ms from now.
C5_ClampKeepsTimer ==
    /\ [](g_click_count_limit > 0 => num_pressed <= g_click_count_limit)
    /\ [][ (/\ EdgeStep
            /\ level # 0
            /\ timer_running
            /\ g_click_count_limit > 0
            /\ num_pressed = g_click_count_limit)
           => (/\ num_pressed' = num_pressed
               /\ out' = <<onDown>>
               /\ timer_deadline' = now + CLICK_TIMEOUT_MS
               /\ ~timer_expired'
               /\ timer_running') ]_vars

\* The fifth DOWN of a window under limit 3 left the count at 3 and re-armed.
C5_Witness ==
    /\ g_click_count_limit = 3
    /\ num_pressed = 3
    /\ window_downs = 5
    /\ out = <<onDown>>
    /\ timer_deadline = now + CLICK_TIMEOUT_MS

\* C6: the CLICK emitted when a window closes with the button up carries the
\* number k of DOWNs of the window if the limit is 0 and min(k, limit)
\* otherwise; two quick presses give CLICK(2), and ten quick presses under
\* limit 3 give ten DOWN/UP pairs and then CLICK(3).
C6_ClickCount ==
    /\ \A i \in 1..Len(out) :
          out[i].kind = "CLICK"
          => out[i].n = IF g_click_count_limit = 0 THEN window_downs
                        ELSE Min(window_downs, g_click_count_limit)
    /\ inputs = Scenario2.evs
       => log = <<onDown, onUp, onDown, onUp, onTimesClicked(2)>>
    /\ inputs = Scenario5.evs
       => log = [i \in 1..20 |-> IF i % 2 = 1 THEN onDown ELSE onUp]
                \o <<onTimesClicked(3)>>

\* Ten presses under limit 3 closed with CLICK(3).
C6_Witness ==
    /\ inputs = Scenario5.evs
    /\ window_downs = 10
    /\ out = <<onTimesClicked(3)>>

C8_Payloads ==
    \A i \in 1..Len(out) :
        /\ out[i].kind = "CLICK" => out[i].n >= 1
        /\ out[i].kind = "HOLD" => (out[i].n >= 1
                                    /\ out[i].ms >= HOLD_PRESS_TIMEOUT_MS)

\* A HOLD emitted by a release after the click timer had expired in the press.
C8_Witness ==
    /\ Kinds(out) = {"UP", "HOLD"}
    /\ ~timer_running
    /\ ~timer_expired
    /\ timer_deadline = 0

\* C9: for ticks1 <= ticks2, both >= 400, seconds(ticks1) <= seconds(ticks2)
\* under each of the four flag settings.
C9_Monotonic == q_pc = "out" => q_res1 <= q_res2

\* The row of the --help-time table of the default quantizer that ticks
\* falls in reports res.
OddTable(ticks, res) ==
    /\ res > 0
    /\ res % 2 = 1
    /\ ticks < 3000 => res = 1
    /\ (3000 <= ticks /\ ticks < 5000) => res = 3
    /\ ticks >= 3000 => (1000 * res <= ticks /\ ticks - 1000 * res < 2000)

\* C10: with both flags false, seconds(ticks) for ticks >= 400 is odd and
\* positive: 1 below 3000, 3 from 3000 up to 5000, and 2k+1 for
\* 1000(2k+1) <= ticks < 1000(2k+3).
C10_OddSeconds ==
    (q_pc = "out" /\ ~g_full_time /\ ~g_offset_time)
    => (OddTable(q_ticks1, q_res1) /\ OddTable(q_ticks2, q_res2))

\* The default quantizer has returned 1 for 999 ms and for 2999 ms.
C10_Witness ==
    /\ q_pc = "out"
    /\ ~g_full_time
    /\ ~g_offset_time
    /\ q_ticks1 = 999
    /\ q_ticks2 = 2999
    /\ q_res1 = 1
    /\ q_res2 = 1

\* C11: for every action kind and payload the formatted action name is at
\* most 11 characters long and is "DOWN" for DOWN, "UP" for UP, "CLICK_<n>"
\* when click_count <= 99 and "CLICK_OTHER" otherwise, "HOLD_<s>S" when the
\* unsigned s = seconds(hold_ms) is <= 99 and "HOLD_OTHER" otherwise.
C11_ActionName ==
    x_pc = "out"
    => /\ Len(x_name) <= ACTION_NAME_SIZE
       /\ x_action = "DOWN" => x_name = "DOWN"
       /\ x_action = "UP" => x_name = "UP"
       /\ (x_action = "CLICK" /\ x_click_count <= 99)
          => x_name = "CLICK_" \o ToString(x_click_count)
       /\ (x_action = "CLICK" /\ x_click_count > 99) => x_name = "CLICK_OTHER"
       /\ (x_action = "HOLD" /\ seconds(x_hold_time) \in 0..99)
          => x_name = "HOLD_" \o ToString(seconds(x_hold_time)) \o "S"
       /\ (x_action = "HOLD" /\ seconds(x_hold_time) \notin 0..99)
          => x_name = "HOLD_OTHER"

\* A hold of 99999 ms was named HOLD_99S.
C11_Witness ==
    /\ x_pc = "out"
    /\ x_action = "HOLD"
    /\ x_hold_time = 99999
    /\ x_name = "HOLD_99S"

\* The lines of the config file in effect that bind the key: not skipped,
\* named key, value and argument shorter than MAX_PATH_LENGTH.
Bindings(key) ==
    LET lines == ConfigLines(g_config_path)
    IN  {i \in 1..Len(lines) :
            LET l == ParseLine(lines[i], TRUE)
            IN  /\ ~l.skip
                /\ Flatten(l.name) = key
                /\ strlen(l.value) < MAX_PATH_LENGTH
                /\ strlen(l.argument) < MAX_PATH_LENGTH}

\* The value of the first line that binds the key.
BoundValue(key) ==
    LET lines == ConfigLines(g_config_path)
        i == CHOOSE j \in Bindings(key) : \A k \in Bindings(key) : j <= k
    IN  ParseLine(lines[i], TRUE).value

\* The fallback key of an action kind.
OtherKey(act) == IF act = "CLICK" THEN "CLICK_OTHER" ELSE "HOLD_OTHER"

\* C12: the resolver looks the fallback key up exactly when the action is a
\* CLICK or a HOLD and no line binds the specific action name (CLICK_OTHER for
\* CLICK, HOLD_OTHER for HOLD; never for DOWN and UP); the command then comes
\* from the fallback binding, and a specific key bound to an empty value
\* yields no command even when the fallback key is bound.
C12_FallbackOnlyWhenAbsent ==
    x_pc = "out"
    => /\ x_fallback <=> (x_action \in {"CLICK", "HOLD"} /\ Bindings(x_name) = {})
       /\ x_action \in {"DOWN", "UP"} => ~x_fallback
       /\ (Bindings(x_name) # {} /\ BoundValue(x_name) = <<>>) => ~x_ran
       /\ (Bindings(x_name) # {} /\ BoundValue(x_name) # <<>>
           /\ Head(BoundValue(x_name)) = "/")
          => x_script = Flatten(BoundValue(x_name))
       /\ x_fallback
          => IF Bindings(OtherKey(x_action)) = {} THEN ~x_ran
             ELSE x_script = Flatten(BoundValue(OtherKey(x_action)))

\* CLICK_1 is bound to an empty value and CLICK_OTHER to a script: one click
\* resolved to no command without looking CLICK_OTHER up.
C12_Witness ==
    /\ x_pc = "out"
    /\ x_action = "CLICK"
    /\ x_name = "CLICK_1"
    /\ Bindings("CLICK_1") # {}
    /\ BoundValue("CLICK_1") = <<>>
    /\ Bindings("CLICK_OTHER") # {}
    /\ ~x_fallback
    /\ ~x_ran

\* C13: the command handed to system() is the script path followed by: for
\* CLICK " <arg>" if the binding's arg is non-empty and " <click_count>"
\* otherwise; for HOLD " <arg>" if arg is non-empty and
\* " <click_count> <hold_ms>" otherwise; for DOWN and UP nothing, also when
\* the binding has an arg.
C13_AppendedText ==
    (x_pc = "out" /\ x_ran)
    => x_cmd = x_script
               \o CASE x_action = "CLICK" /\ x_arg # "" -> " " \o x_arg
                    [] x_action = "CLICK" /\ x_arg = ""
                         -> " " \o ToString(x_click_count)
                    [] x_action = "HOLD" /\ x_arg # "" -> " " \o x_arg
                    [] x_action = "HOLD" /\ x_arg = ""
                         -> " " \o ToString(x_click_count) \o " "
                            \o ToString(x_hold_time)
                    [] OTHER -> ""

\* DOWN bound with an arg ran the script path alone.
C13_Witness ==
    /\ x_pc = "out"
    /\ x_ran
    /\ x_action = "DOWN"
    /\ x_arg = "now"
    /\ x_cmd = "/bin/down"

\* C14 as stated: with the line `CLICK_1 /bin/echo one`, resolve(CLICK, 1, 0)
\* yields "/bin/echo one 1"; with `CLICK_1 /bin/echo one two three` it yields
\* "/bin/echo one two three".
C14_ConfigExamples ==
    (x_pc = "out" /\ x_action = "CLICK" /\ x_click_count = 1 /\ x_hold_time = 0)
    => /\ ConfigLines(g_config_path) = <<LineEchoOne>>
          => (x_ran /\ x_cmd = "/bin/echo one 1")
       /\ ConfigLines(g_config_path) = <<LineEchoOneTwoThree>>
          => (x_ran /\ x_cmd = "/bin/echo one two three")

\* C14: with the line `CLICK_1 /bin/echo one`, resolve(CLICK, 1, 0) yields
\* "/bin/echo one" (`one` is the binding's arg and replaces the count); with
\* `CLICK_1 /bin/echo one two three` it yields "/bin/echo one two three".
C14_ConfigExamplesArgReplacesCount ==
    (x_pc = "out" /\ x_action = "CLICK" /\ x_click_count = 1 /\ x_hold_time = 0)
    => /\ ConfigLines(g_config_path) = <<LineEchoOne>>
          => (x_ran /\ x_cmd = "/bin/echo one")
       /\ ConfigLines(g_config_path) = <<LineEchoOneTwoThree>>
          => (x_ran /\ x_cmd = "/bin/echo one two three")

\* One click resolved against the file holding `CLICK_1 /bin/echo one`.
C14_Witness ==
    /\ x_pc = "out"
    /\ x_action = "CLICK"
    /\ x_click_count = 1
    /\ ConfigLines(g_config_path) = <<LineEchoOne>>
    /\ x_ran
    /\ x_script = "/bin/echo"
    /\ x_arg = "one"

\* The positions of the arguments of argv named by one of the options.
OptionArgs(options) ==
    {i \in 2..Len(argv) : Flatten(argv[i - 1]) \in options}

\* The argument of the last occurrence of one of the options.
LastOptionArg(options) ==
    argv[CHOOSE i \in OptionArgs(options) : \A j \in OptionArgs(options) : j <= i]

\* The text is an unsigned decimal number (strtoul also takes a leading +).
IsUnsignedText(t) ==
    LET ds == IF t # <<>> /\ Head(t) = "+" THEN Tail(t) ELSE t
    IN  ds # <<>> /\ \A i \in 1..Len(ds) : IsDigit(ds[i])

UnsignedValue(t) == Decimal(IF Head(t) = "+" THEN Tail(t) ELSE t)

\* The text behind the key CLICK_COUNT_LIMIT on each line of the config file
\* in effect that binds the key to a text that fits the 12-byte buffer.
LimitTexts ==
    LET lines == ConfigLines(g_config_path)
        bound == {i \in 1..Len(lines) :
                     LET l == ParseLine(lines[i], FALSE)
                     IN  /\ ~l.skip
                         /\ Flatten(l.name) = "CLICK_COUNT_LIMIT"
                         /\ strlen(l.value) < UINT_BUFFER_SIZE}
    IN  [i \in bound |-> ParseLine(lines[i], FALSE).value]

C16_ConfigPathFromEnv ==
    pc = "run"
    => LET named == {envp[i].value : i \in {j \in 1..Len(envp) :
                                               /\ envp[j].name = "INZOWN_BTN_CFG"
                                               /\ envp[j].value # <<>>}}
       IN  IF OptionArgs({"--conf"}) # {}
           THEN g_config_path = LastOptionArg({"--conf"})
           ELSE named # {} => g_config_path \in named

\* C17: the exit status is nonzero when the run ends because of a setup
\* failure, a read of the value file that returns zero bytes or a short read
\* of the timer, and it is 0 only when the interrupt signal ended the run.
C17_ExitStatus ==
    (pc = "exited" /\ exit_cause # "usage")
    => /\ exit_cause \in {"setup", "read", "timer_read"} => exit_status # <<0>>
       /\ exit_status = <<0>> => exit_cause = "signal"

\* C18: when the process has ended through the interrupt signal or through
\* the end of the loop of run() after it had set the edge file to "both",
\* the edge file holds "none"; and the process has unexported the pin if and
\* only if it had exported it.
C18_EdgeResetOnShutdown ==
    (pc = "exited" /\ exit_cause \in {"signal", "poll", "read"})
    => /\ edge_set_both => gpio_edge = "none"
       /\ unexported_here <=> exported_here

\* C19 as stated: press_count >= 1 whenever timer_running is true and
\* press_count = 0 whenever timer_running is false, in particular after the
\* expiry that clears timer_running.
C19_CountZeroIffIdle ==
    /\ timer_running => num_pressed >= 1
    /\ ~timer_running => num_pressed = 0

\* C19: press_count >= 1 whenever timer_running is true; press_count changes
\* only on a pressed edge, which leaves it >= 1, so after the expiry that
\* clears timer_running it keeps the count of the closed window and is 0 only
\* before the first DOWN.
C19_CountPositiveWhileRunning ==
    /\ [](timer_running => num_pressed >= 1)
    /\ [][ num_pressed' # num_pressed
           => (EdgeStep /\ level # 0 /\ num_pressed' >= 1) ]_vars

\* The expiry of a window of two presses cleared timer_running and left the
\* count at 2.
C19_Witness ==
    /\ ~timer_running
    /\ ~button_down
    /\ num_pressed = 2
    /\ Kinds(out) = {"CLICK"}

\* C20: every step that emits DOWN leaves the one-shot timer armed to expire
\* 400 ms after that DOWN with no expiry pending, and no CLICK is emitted
\* less than 400 ms after the most recent DOWN.
C20_RearmOnEveryDown ==
    /\ [][ Count(out', "DOWN") > 0
           => (/\ timer_deadline' = now + CLICK_TIMEOUT_MS
               /\ ~timer_expired'
               /\ timer_running') ]_vars
    /\ [](Count(out, "CLICK") > 0 => now - pressed_at >= CLICK_TIMEOUT_MS)

\* A window of three presses closed with its CLICK, 400 ms or more after the
\* third DOWN.
C20_Witness ==
    /\ out = <<onTimesClicked(3)>>
    /\ window_downs = 3
    /\ now - pressed_at >= CLICK_TIMEOUT_MS
    /\ now >= CLICK_TIMEOUT_MS + CLICK_TIMEOUT_MS

\* The step is a loop iteration in which poll() reported both the button and
\* the timer ready.
BothReady == EdgeStep /\ timer_expired

\* C21: in an iteration that finds the edge and the timer expiry both ready,
\* the button branch runs before the timer branch: an edge that reads pressed
\* emits DOWN first and the iteration (the read of the timer it then waits in
\* included) emits no CLICK; an edge that reads released emits its UP (and
\* HOLD) before the CLICK of the timer branch, which sees the button up.
C21_EdgeBeforeTimer ==
    /\ [][ (BothReady /\ level # 0)
           => (out' = <<onDown>> /\ button_down' /\ pc' = "timer_read") ]_vars
    /\ [][ pc = "timer_read" => Count(out', "CLICK") = 0 ]_vars
    /\ [][ (BothReady /\ level = 0)
           => (/\ ~button_down'
               /\ out' # <<>>
               /\ out'[Len(out')] = onTimesClicked(num_pressed)
               /\ Count(out', "CLICK") = 1
               /\ button_down => out'[1] = onUp) ]_vars

\* The iteration found a pressed edge and the expiry of the window of two
\* earlier presses ready: it emitted the DOWN and waits in the read of the
\* re-armed timer.
C21_Witness ==
    /\ pc = "timer_read"
    /\ out = <<onDown>>
    /\ button_down
    /\ window_downs = 3
    /\ window_clicks = 0

\* C22: no press is reported by both gestures: a CLICK is emitted only when
\* the release of the most recent press (the press whose DOWN armed the
\* expiring timer) has emitted no HOLD, whatever the order in which the
\* released edge and the expiry are delivered.
C22_NoPressBothGestures == Count(out, "CLICK") > 0 => press_holds = 0

\* The timerfd is armed, or holds an expiration that was not read yet.
TimerArmed == timer_deadline # 0 \/ timer_expired

\* C23: timer_running is true exactly when the one-shot timer is armed with
\* an expiry that was not consumed yet; an expiry is consumed only while
\* timer_running is true, and timer_running is cleared only by the step that
\* consumes the expiry, which leaves the timer disarmed.
C23_RunningIffArmed ==
    /\ [](timer_running <=> TimerArmed)
    /\ [][ TimerStep => timer_running ]_vars
    /\ [][ (timer_running /\ ~timer_running')
           => (TimerStep /\ timer_deadline' = 0 /\ ~timer_expired') ]_vars

\* The timer re-armed by a pressed edge that arrived together with an expiry
\* has expired while run() waits in the read of the timer: timer_running is
\* still true and the expiry is not consumed yet.
C23_Witness ==
    /\ pc = "timer_read"
    /\ timer_running
    /\ timer_expired
    /\ timer_deadline = 0
    /\ now = pressed_at + CLICK_TIMEOUT_MS

\* Nothing is left for run() to handle: the button is up and was read so, no
\* edge is pending and the timer is neither armed nor expired.  Without a
\* further edge the daemon emits nothing from here on.
Quiescent ==
    /\ pc = "poll"
    /\ ~edge_pending
    /\ level = 0
    /\ ~button_down
    /\ timer_deadline = 0
    /\ ~timer_expired

====
